---------------------------- MODULE Spec2Model ----------------------------
(***************************************************************************)
(* A model of the gitleaks GitLab host (hosts.Gitlab: Scan and             *)
(* ScanCommitURL) and of the rule evaluation of config.Rule (Inspect and   *)
(* its helpers).                                                           *)
(*                                                                         *)
(* Three state machines share the variables of this module:                *)
(*   SpecScan    Gitlab.Scan: the listing loop and the clone/scan loop;    *)
(*   SpecCommit  Gitlab.ScanCommitURL: the commit lookup and the diff loop;*)
(*   SpecRule    Rule.Inspect on one rule and one line;                    *)
(*   SpecEval    Rule.Inspect, called twice, and                           *)
(*               Rule.HasFileOrPathLeakOnly on one rule, line and path.    *)
(* The GitLab API client, the repository (Clone, Scan, CheckRules) and the *)
(* regexp package are the environment: their answers are drawn from small  *)
(* sets.                                                                   *)
(***************************************************************************)
EXTENDS Integers, Sequences, FiniteSets, TLC

VARIABLES
    \* ---- Gitlab.Scan ----
    opts,        \* manager.Opts: User / Organization set or not, ExcludeForks
    host,        \* the listing on the server: a sequence of pages of projects
    page,        \* local variable page
    listOpts,    \* local variable listOpts (gitlab.ListOptions)
    projects,    \* local variable projects
    resp,        \* local variable resp (NilResp or the pagination of a response)
    err,         \* local variable err (TRUE: non-nil)
    pc,          \* "list" | "wait" | "clone" | "done" | "bound" | "idle"
    idx,         \* position of the range loop over projects
    requested,   \* history: the page index of every listing request (capped)
    listErrs,    \* history: the outcome of each listing request (capped)
    tasks,       \* history: one record per iteration of the clone/scan loop
    \* ---- Gitlab.ScanCommitURL ----
    commit,      \* the commit the server holds for the commit URL
    commitObj,   \* local variable commitObj (NoCommit before it is built)
    diffHost,    \* the commit's diff on the server: a sequence of pages of diffs
    diffPage,    \* local variable diffPage
    checked,     \* history: every Bundle passed to repo.CheckRules, in order
    diffLog,     \* history: every diff request [page, ok] (capped)
    cpc,         \* "start" | "diff" | "done" | "fatal" | "idle"
    \* ---- Rule.Inspect and Rule.HasFileOrPathLeakOnly ----
    rule,        \* the Rule (receiver r)
    line,        \* the argument of Inspect
    offender,    \* first result of the latest call of Inspect
    entropy,     \* second result of it (the report: one entry per group)
    returnedAt,  \* history: the return statement of Inspect that was taken
    measured,    \* history: the entropy shannonEntropy computes for each
                 \* group of the match in the latest call of Inspect
    calls,       \* history: the results of the calls of Inspect, in order
    rpc,         \* "ready" | "done" | "again" (called twice) | "idle"
    path,        \* the argument of HasFileOrPathLeakOnly
    leakOnly,    \* the result of HasFileOrPathLeakOnly
    fpc,         \* "ready" | "done" | "idle"
    \* ---- the process ----
    logged,      \* the kinds of messages written to the log so far
    outcome      \* "running" | "returned" (the entry point returned to its
                 \* caller) | "exited" (log.Fatalf ended the process)

scanVars == <<opts, host, page, listOpts, projects, resp, err, pc, idx,
              requested, listErrs, tasks>>
commitVars == <<commit, commitObj, diffHost, diffPage, checked, diffLog, cpc>>
ruleVars == <<rule, line, offender, entropy, returnedAt, measured, calls, rpc,
              path, leakOnly, fpc>>
vars == <<scanVars, commitVars, ruleVars, logged, outcome>>

----------------------------------------------------------------------------
(* Bounds of the model.                                                    *)

\* the most pages a host listing has
MaxPages == 3
\* the most projects one page of the listing holds
MaxItems == 2
\* the longest list of collected projects the model follows
MaxCollected == 4

\* the history of listing requests keeps this many entries
MaxRequests == MaxPages + 2

\* gitlab.ListOptions.PerPage as Scan sets it
PerPage == 100

\* the most pages the diff of a commit has
MaxDiffPages == 3
\* the most diffs one page holds
MaxDiffs == 2
\* the history of diff requests keeps this many entries
MaxDiffLog == MaxDiffPages + 2

\* plumbing.Hash is [20]byte; a commit id is twice as many hex digits
HashSize == 20

\* the longest line given to Inspect
MaxLineLen == 3
\* the longest path given to HasFileOrPathLeakOnly
MaxPathLen == 2

----------------------------------------------------------------------------
(* Helpers.                                                                *)

\* append to a history that keeps at most cap entries
AppendCapped(log, x, cap) == IF Len(log) < cap THEN Append(log, x) ELSE log

RECURSIVE Flatten(_)
Flatten(pages) ==
    IF pages = <<>> THEN <<>> ELSE Head(pages) \o Flatten(Tail(pages))

\* how many entries of sequence s equal x
Count(s, x) == Cardinality({i \in 1..Len(s) : s[i] = x})

----------------------------------------------------------------------------
(* The host listing (the GitLab projects API).                             *)

NilResp == [nil |-> TRUE]

\* Project names: the k-th project of page p.
ProjectName(p, k) == (p - 1) * MaxItems + k

ForkPatterns == {"none", "all", "odd"}

IsFork(pattern, name) ==
    CASE pattern = "none" -> FALSE
      [] pattern = "all"  -> TRUE
      [] OTHER            -> name % 2 = 1

\* a listing of Len(counts) pages, page p holding counts[p] projects
MakeHost(counts, pattern) ==
    [p \in 1..Len(counts) |->
        [k \in 1..counts[p] |->
            [Name |-> ProjectName(p, k),
             Forked |-> IsFork(pattern, ProjectName(p, k))]]]

Hosts ==
    UNION {{MakeHost(counts, pattern) :
                counts \in [1..t -> 0..MaxItems], pattern \in ForkPatterns} :
           t \in 1..MaxPages}

\* The answers the client can give to a request for page q of the listing:
\* the page with its pagination, or an error without a response (transport
\* failure), or an error with a response that carries no pagination headers.
ListAnswers(q) ==
    LET T == Len(host) IN
    {[kind |-> "ok",
      items |-> IF q \in 1..T THEN host[q] ELSE <<>>,
      resp |-> [nil |-> FALSE, TotalPages |-> T,
                NextPage |-> IF q < T THEN q + 1 ELSE 0],
      err |-> FALSE],
     [kind |-> "neterr", items |-> <<>>, resp |-> NilResp, err |-> TRUE],
     [kind |-> "httperr", items |-> <<>>,
      resp |-> [nil |-> FALSE, TotalPages |-> 0, NextPage |-> 0],
      err |-> TRUE]}

----------------------------------------------------------------------------
(* Gitlab.Scan                                                             *)

OptsSet == [User : BOOLEAN, Organization : BOOLEAN, ExcludeForks : BOOLEAN]

ScanIdle ==
    /\ opts = [User |-> FALSE, Organization |-> FALSE, ExcludeForks |-> FALSE]
    /\ host = <<>>
    /\ page = 0
    /\ listOpts = [PerPage |-> 0, Page |-> 0]
    /\ projects = <<>>
    /\ resp = NilResp
    /\ err = FALSE
    /\ pc = "idle"
    /\ idx = 0
    /\ requested = <<>>
    /\ listErrs = <<>>
    /\ tasks = <<>>

CommitIdle ==
    /\ commit = NilResp
    /\ commitObj = NilResp
    /\ diffHost = <<>>
    /\ diffPage = 0
    /\ checked = <<>>
    /\ diffLog = <<>>
    /\ cpc = "idle"

RuleIdle ==
    /\ rule = NilResp
    /\ line = <<>>
    /\ offender = <<>>
    /\ entropy = <<>>
    /\ returnedAt = "none"
    /\ measured = <<>>
    /\ calls = <<>>
    /\ rpc = "idle"
    /\ path = <<>>
    /\ leakOnly = FALSE
    /\ fpc = "idle"

\* lines 47-57: the declarations, page := 1 and listOpts built from it
InitScan ==
    /\ opts \in OptsSet
    /\ host \in Hosts
    /\ page = 1
    /\ listOpts = [PerPage |-> PerPage, Page |-> 1]
    /\ projects = <<>>
    /\ resp = NilResp
    /\ err = FALSE
    /\ pc = "list"
    /\ idx = 0
    /\ requested = <<>>
    /\ listErrs = <<>>
    /\ tasks = <<>>
    /\ logged = {}
    /\ outcome = "running"
    /\ CommitIdle
    /\ RuleIdle

\* every project of a page is kept, whatever Opts.ExcludeForks says
KeptProjects_KeepAll(items) == items

\* lines 76-82: the projects of a page that are kept
KeptProjects(items) ==
    SelectSeq(items, LAMBDA p : ~(opts.ExcludeForks /\ p.Forked))

\* lines 60-71: the page index the request carries
RequestPage == listOpts.Page

\* a request that got no response is tried again in place of leaving the loop
AfterPage_RetryNil(r, pg) ==
    IF r.nil THEN [pc |-> "list", page |-> pg]
    ELSE IF pg >= r.TotalPages THEN [pc |-> "clone", page |-> pg]
    ELSE [pc |-> "list", page |-> r.NextPage]

\* a request that got no response ends Scan at once, before the clone loop
AfterPage_AbortOnNil(r, pg) ==
    IF r.nil THEN [pc |-> "done", page |-> pg]
    ELSE IF pg >= r.TotalPages THEN [pc |-> "clone", page |-> pg]
    ELSE [pc |-> "list", page |-> r.NextPage]

\* lines 84-91: what follows an iteration: leave the loop, or the next page
AfterPage(r, pg) ==
    IF r.nil THEN [pc |-> "clone", page |-> pg]
    ELSE IF pg >= r.TotalPages THEN [pc |-> "clone", page |-> pg]
    ELSE [pc |-> "list", page |-> r.NextPage]

\* lines 60-71: the loop issues the listing request of this iteration
\* (ListUserProjects or ListGroupProjects) and waits for the answer
ListRequest ==
    /\ pc = "list"
    /\ opts.User \/ opts.Organization
    /\ pc' = "wait"
    /\ requested' = AppendCapped(requested, RequestPage, MaxRequests)
    /\ UNCHANGED <<opts, host, page, listOpts, projects, resp, err, idx,
                   listErrs, tasks, commitVars, ruleVars, logged, outcome>>

\* lines 72-92: the rest of an iteration, given what the request returned
HandlePage(a) ==
    LET collected == projects \o KeptProjects(a.items)
        next == AfterPage(a.resp, page)
    IN  /\ resp' = a.resp
        /\ err' = a.err
        /\ logged' = IF a.err THEN logged \cup {"list"} ELSE logged
        /\ IF Len(collected) > MaxCollected
           THEN /\ pc' = "bound"
                /\ UNCHANGED <<projects, page, idx>>
           ELSE /\ projects' = collected
                /\ pc' = next.pc
                /\ page' = next.page
                /\ idx' = IF next.pc = "clone" THEN 1 ELSE idx

\* lines 64, 70 and 72-92: the request returns and the iteration completes
ListResponse ==
    /\ pc = "wait"
    /\ \E a \in ListAnswers(requested[Len(requested)]) :
          /\ HandlePage(a)
          /\ listErrs' = AppendCapped(listErrs, a.err, MaxRequests)
    /\ UNCHANGED <<opts, host, listOpts, requested, tasks, commitVars,
                   ruleVars, outcome>>

\* lines 58-92 with neither Opts.User nor Opts.Organization set: no request
\* is made, and _projects, resp and err keep their values
ListNoSource ==
    /\ pc = "list"
    /\ ~(opts.User \/ opts.Organization)
    /\ HandlePage([items |-> <<>>, resp |-> resp, err |-> err])
    /\ UNCHANGED <<opts, host, listOpts, requested, listErrs, tasks,
                   commitVars, ruleVars, outcome>>

\* a failed Clone ends the loop (break in place of continue)
AfterCloneError_Break(i) == Len(projects) + 1

\* lines 99-103: the position of the loop after a failed Clone (continue)
AfterCloneError(i) == i + 1

\* lines 95-110: one iteration of the loop over the collected projects
CloneAndScan ==
    /\ pc = "clone"
    /\ idx <= Len(projects)
    /\ \E cloneOk \in BOOLEAN, scanOk \in BOOLEAN :
         LET p == projects[idx] IN
         IF ~cloneOk
         THEN /\ ~scanOk
              /\ tasks' = Append(tasks, [Name |-> p.Name, clone |-> "failed",
                                         scan |-> "none"])
              /\ logged' = logged \cup {"clone"}
              /\ idx' = AfterCloneError(idx)
         ELSE /\ tasks' = Append(tasks, [Name |-> p.Name, clone |-> "ok",
                                         scan |-> IF scanOk THEN "ok" ELSE "failed"])
              /\ logged' = IF scanOk THEN logged ELSE logged \cup {"scan"}
              /\ idx' = idx + 1
    /\ UNCHANGED <<opts, host, page, listOpts, projects, resp, err, pc,
                   requested, listErrs, commitVars, ruleVars, outcome>>

\* line 111: the loop is over and Scan returns
ScanReturn ==
    /\ pc = "clone"
    /\ idx > Len(projects)
    /\ pc' = "done"
    /\ outcome' = "returned"
    /\ UNCHANGED <<opts, host, page, listOpts, projects, resp, err, idx,
                   requested, listErrs, tasks, commitVars, ruleVars, logged>>

NextScan == ListRequest \/ ListResponse \/ ListNoSource \/ CloneAndScan \/ ScanReturn

SpecScan == InitScan /\ [][NextScan]_vars

\* Scan runs on one goroutine that is never suspended for good: every
\* enabled step is eventually taken.
FairSpecScan == SpecScan /\ WF_vars(NextScan)

----------------------------------------------------------------------------
(* The commit and its diff (the GitLab commits API).                       *)

NoCommit == [nil |-> TRUE]

\* A commit id is a string of hex digits: a sequence of digit values 0..15
\* (16 stands for a character that is no hex digit).
CommitIDs ==
    {[i \in 1..(2 * HashSize) |-> (i * k) % 16] : k \in {3, 7}}

Commits ==
    {[nil |-> FALSE, ID |-> id, AuthorName |-> "alice",
      AuthorEmail |-> "alice@example.com", AuthoredDate |-> 1600000000 + id[1]] :
        id \in CommitIDs}

\* the k-th diff of page p
DiffOf(p, k) ==
    [Diff |-> <<"hunk", p, k>>, NewPath |-> <<"new", p, k>>,
     OldPath |-> <<"old", p, k>>]

DiffHosts ==
    UNION {{[p \in 1..P |-> [k \in 1..counts[p] |-> DiffOf(p, k)]] :
                counts \in [1..P -> 0..MaxDiffs]} :
           P \in 1..MaxDiffPages}

\* The answers of GetCommitDiff to a request for page q: the page with its
\* pagination, or an error.
DiffAnswers(q) ==
    LET P == Len(diffHost) IN
    {[ok |-> TRUE,
      diffs |-> IF q \in 1..P THEN diffHost[q] ELSE <<>>,
      resp |-> [CurrentPage |-> q, TotalPages |-> P,
                NextPage |-> IF q < P THEN q + 1 ELSE 0]],
     [ok |-> FALSE, diffs |-> <<>>, resp |-> NilResp]}

----------------------------------------------------------------------------
(* plumbing.NewHash (line 137): hex.DecodeString, copied into 20 bytes.    *)

\* encoding/hex Decode: pairs of digits to bytes, up to the first character
\* that is no hex digit; a last unpaired digit is dropped
RECURSIVE HexDecode(_)
HexDecode(s) ==
    IF Len(s) < 2 \/ s[1] > 15 \/ s[2] > 15 THEN <<>>
    ELSE <<16 * s[1] + s[2]>> \o HexDecode(SubSeq(s, 3, Len(s)))

\* var h Hash; copy(h[:], b)
NewHash(s) ==
    LET b == HexDecode(s) IN
    [i \in 1..HashSize |-> IF i <= Len(b) THEN b[i] ELSE 0]

----------------------------------------------------------------------------
(* Gitlab.ScanCommitURL                                                    *)

\* lines 121-129: the commit URL is split and the repo is made
InitCommit ==
    /\ commit \in Commits
    /\ commitObj = NoCommit
    /\ diffHost \in DiffHosts
    /\ diffPage = 0
    /\ checked = <<>>
    /\ diffLog = <<>>
    /\ cpc = "start"
    /\ logged = {}
    /\ outcome = "running"
    /\ ScanIdle
    /\ RuleIdle

\* the lookup failure is logged and the function goes on
AfterCommitError_LogOnly == "diff"

\* lines 132-134: log.Fatalf ends the process
AfterCommitError == "fatal"

\* lines 136-143: commitObj
MakeCommitObj(c) ==
    [nil |-> FALSE,
     Hash |-> NewHash(c.ID),
     Author |-> [Name |-> c.AuthorName, Email |-> c.AuthorEmail,
                 When |-> c.AuthoredDate]]

\* lines 131-146: GetCommit, the fatal error, commitObj and diffPage := 1
GetCommit ==
    /\ cpc = "start"
    /\ \E ok \in BOOLEAN :
         IF ok
         THEN /\ commitObj' = MakeCommitObj(commit)
              /\ diffPage' = 1
              /\ cpc' = "diff"
              /\ UNCHANGED <<logged, outcome>>
         ELSE /\ logged' = logged \cup {"fatal"}
              /\ cpc' = AfterCommitError
              /\ outcome' = IF AfterCommitError = "fatal" THEN "exited" ELSE outcome
              /\ diffPage' = IF AfterCommitError = "fatal" THEN diffPage ELSE 1
              /\ UNCHANGED commitObj
    /\ UNCHANGED <<commit, diffHost, checked, diffLog, scanVars, ruleVars>>

\* the bundle carries the old path of the diff
BundleOf_OldPath(d) ==
    [Content |-> d.Diff, FilePath |-> d.OldPath, Commit |-> commitObj]

\* lines 157-161: the Bundle made of one diff
BundleOf(d) ==
    [Content |-> d.Diff, FilePath |-> d.NewPath, Commit |-> commitObj]

\* lines 150-153: the page the loop requests after a failed request (continue)
DiffPageAfterError(pg) == pg

\* lines 147-168: one iteration of the diff loop
DiffIteration ==
    /\ cpc = "diff"
    /\ \E a \in DiffAnswers(diffPage) :
         /\ diffLog' = AppendCapped(diffLog, [page |-> diffPage, ok |-> a.ok],
                                    MaxDiffLog)
         /\ IF ~a.ok
            THEN /\ logged' = logged \cup {"diff"}
                 /\ diffPage' = DiffPageAfterError(diffPage)
                 /\ UNCHANGED <<checked, cpc, outcome>>
            ELSE /\ checked' = checked \o
                        [k \in 1..Len(a.diffs) |-> BundleOf(a.diffs[k])]
                 /\ IF a.resp.CurrentPage >= a.resp.TotalPages
                    THEN /\ cpc' = "done"
                         /\ outcome' = "returned"
                         /\ UNCHANGED diffPage
                    ELSE /\ diffPage' = a.resp.NextPage
                         /\ UNCHANGED <<cpc, outcome>>
                 /\ UNCHANGED logged
    /\ UNCHANGED <<commit, commitObj, diffHost, scanVars, ruleVars>>

NextCommit == GetCommit \/ DiffIteration

SpecCommit == InitCommit /\ [][NextCommit]_vars

----------------------------------------------------------------------------
(* Strings and the regexp package.                                         *)
(*                                                                         *)
(* A string is a sequence of characters (Unicode code points).  A compiled *)
(* regular expression is modelled for the patterns that are a sequence of  *)
(* character classes with capture groups around runs of them, such as      *)
(* k([ab]) or (k)([ab][ab]): atoms is the sequence of classes and caps the *)
(* groups, each the run atoms[lo..hi]; hi = lo - 1 is a group that         *)
(* captures the empty string, as () does.                                  *)

Alphabet == {"a", "b", "k", "e_acute"}

\* the number of bytes of the UTF-8 encoding of a character
Utf8Len(c) == IF c = "e_acute" THEN 2 ELSE 1

\* len(s) of a Go string: its length in bytes
RECURSIVE ByteLen(_)
ByteLen(s) == IF s = <<>> THEN 0 ELSE Utf8Len(Head(s)) + ByteLen(Tail(s))

Lines == UNION {[1..n -> Alphabet] : n \in 0..MaxLineLen}

AnyChar == Alphabet
Re(atoms, caps) == [nil |-> FALSE, atoms |-> atoms, caps |-> caps]

\* a nil *regexp.Regexp
NilRegex == [nil |-> TRUE]

\* the pattern "" and some patterns over the alphabet:
\* k[ab], k([ab]), (k)([ab][ab]), k()[ab], (..)
EmptyRegex == Re(<<>>, <<>>)
ContentRegexes ==
    {EmptyRegex,
     Re(<<{"k"}, {"a", "b"}>>, <<>>),
     Re(<<{"k"}, {"a", "b"}>>, <<[lo |-> 2, hi |-> 2]>>),
     Re(<<{"k"}, {"a", "b"}, {"a", "b"}>>,
        <<[lo |-> 1, hi |-> 1], [lo |-> 2, hi |-> 3]>>),
     Re(<<{"k"}, {"a", "b"}>>, <<[lo |-> 2, hi |-> 1]>>),
     Re(<<AnyChar, AnyChar>>, <<[lo |-> 1, hi |-> 2]>>)}

\* Regexp.String(): whether the source text of the pattern is ""
SourceIsEmpty(re) == re.atoms = <<>> /\ re.caps = <<>>

\* the pattern matches s at position i
MatchesAt(re, s, i) ==
    /\ i + Len(re.atoms) - 1 <= Len(s)
    /\ \A j \in 1..Len(re.atoms) : s[i + j - 1] \in re.atoms[j]

\* the start of the leftmost match of re in s, 0 if there is none
MatchStart(re, s) ==
    LET starts == {i \in 1..(Len(s) + 1) : MatchesAt(re, s, i)} IN
    IF starts = {} THEN 0
    ELSE CHOOSE i \in starts : \A j \in starts : i <= j

\* Regexp.FindString: the text of the leftmost match, "" if there is none
FindString(re, s) ==
    LET i == MatchStart(re, s) IN
    IF i = 0 THEN <<>> ELSE SubSeq(s, i, i + Len(re.atoms) - 1)

\* Regexp.FindStringSubmatch: the leftmost match and the text of its groups
\* (group 0 first), nil (no entries) if there is no match
FindStringSubmatch(re, s) ==
    LET i == MatchStart(re, s) IN
    IF i = 0 THEN <<>>
    ELSE <<SubSeq(s, i, i + Len(re.atoms) - 1)>> \o
         [g \in 1..Len(re.caps) |->
             SubSeq(s, i + re.caps[g].lo - 1, i + re.caps[g].hi - 1)]

----------------------------------------------------------------------------
(* config.Rule                                                             *)

\* Entropy values are float64 in the code.  Here a value is a whole number
\* of millionths of a bit that keeps six significant decimal digits, as a
\* float64 keeps 53 binary ones: the result of an addition is rounded to
\* that precision, ties to even.  Values stay below ten bits.
Bit == 1000000

\* the result of a floating-point operation, rounded to the precision kept
RoundFloat(x) ==
    IF x < Bit THEN x
    ELSE LET q == x \div 10
             r == x % 10
         IN  IF r > 5 \/ (r = 5 /\ q % 2 = 1) THEN (q + 1) * 10 ELSE q * 10

\* line 131: PLog2P[n][c] is freq * math.Log2(freq) negated, for the
\* frequency c/n
PLog2P ==
    <<<<0>>,
      <<500000, 0>>,
      <<528321, 389975, 0>>,
      <<500000, 500000, 311278, 0>>,
      <<464386, 528771, 442179, 257542, 0>>,
      <<430827, 528321, 500000, 389975, 219195, 0>>,
      <<401051, 516387, 523882, 461346, 346733, 190622, 0>>,
      <<375000, 500000, 530639, 500000, 423795, 311278, 168564, 0>>,
      <<352214, 482206, 528321, 519967, 471109, 389975, 281999, 151044, 0>>,
      <<332193, 464386, 521090, 528771, 500000, 442179, 360201, 257542,
        136803, 0>>,
      <<314494, 447169, 511219, 530702, 517047, 476983, 414958, 334132,
        236869, 125003, 0>>,
      <<298747, 430827, 500000, 528321, 526264, 500000, 453604, 389975,
        311278, 219195, 115070, 0>>>>

\* lines 123-126: the keys of charCounts in the order they are inserted: the
\* characters of data by first occurrence
FirstOccurrences(data) ==
    LET firsts == {i \in 1..Len(data) :
                      \A j \in 1..(i - 1) : data[j] # data[i]}
    IN  [k \in 1..Cardinality(firsts) |->
            data[CHOOSE i \in firsts :
                     Cardinality({j \in firsts : j < i}) = k - 1]]

\* line 129: the order in which `range charCounts` visits the keys.  A map
\* this small keeps its entries in the slots of one bucket in insertion
\* order; an iteration starts at a slot the runtime picks at random and
\* wraps around, passing over the empty slots.
IterationOrder(keys, offset) ==
    LET k == Len(keys)
        start == IF offset < k THEN offset ELSE 0
    IN  [i \in 1..k |-> keys[((i - 1 + start) % k) + 1]]

\* the starting slots the runtime can pick for the maps built from parts of
\* the string ln: a slot behind the last entry gives the order of slot 0,
\* and such a map has no more entries than ln has distinct characters
MapOffsets(ln) ==
    LET k == Cardinality({ln[i] : i \in 1..Len(ln)})
    IN  0..(IF k = 0 THEN 0 ELSE k - 1)

\* line 128: the length the frequencies are taken over: len(data)
DataLength(data) == ByteLen(data)

\* lines 129-132: entropy after the loop body entropy -= freq * Log2(freq)
\* has run for each of the terms in turn
RECURSIVE Accumulate(_)
Accumulate(terms) ==
    IF terms = <<>> THEN 0
    ELSE RoundFloat(Accumulate(SubSeq(terms, 1, Len(terms) - 1))
                    + terms[Len(terms)])

\* lines 118-135: shannonEntropy, when the iteration over charCounts starts
\* at the slot offset
shannonEntropy(data, offset) ==
    IF data = <<>> THEN 0
    ELSE LET order == IterationOrder(FirstOccurrences(data), offset)
             length == DataLength(data)
         IN  Accumulate([i \in 1..Len(order) |->
                            PLog2P[length][Count(data, order[i])]])

\* a regex that is not set matches every string
regexMatched_NilMatches(f, re) ==
    IF re.nil THEN TRUE
    ELSE FindString(re, f) # <<>>

\* lines 139-147: regexMatched
regexMatched(f, re) ==
    IF re.nil THEN FALSE
    ELSE FindString(re, f) # <<>>

\* lines 151-158: anyRegexMatch
anyRegexMatch(f, res) ==
    \E i \in 1..Len(res) : regexMatched(f, res[i])

\* lines 56-58: Rule.RegexAllowed
RegexAllowed(r, content) == anyRegexMatch(content, r.AllowList.Regexes)

\* the bounds of the range are exclusive
InRange_Exclusive(h, e) == h > e.Min /\ h < e.Max

\* line 70: the test of one entropy definition
InRange(h, e) == h >= e.Min /\ h <= e.Max

\* a definition that names a group past the last one is tested on the last
CheckEntropies_ClampGroup(r, groups, offset) ==
    \E i \in 1..Len(r.Entropies) :
        LET e == r.Entropies[i]
            g == IF Len(groups) > e.Group THEN e.Group + 1 ELSE Len(groups)
        IN  /\ g >= 1
            /\ InRange(shannonEntropy(groups[g], offset), e)

\* lines 66-76: Rule.CheckEntropies
CheckEntropies(r, groups, offset) ==
    \E i \in 1..Len(r.Entropies) :
        LET e == r.Entropies[i] IN
        /\ Len(groups) > e.Group
        /\ InRange(shannonEntropy(groups[e.Group + 1], offset), e)

\* fmt.Sprintf("%.2f", entropy): the entropy rounded to hundredths
Format2(h) == (h + 5000) \div 10000

\* the report has entries for the capture groups only, not for group 0
ComputeEntropy_CapturesOnly(r, groups, offset) ==
    [i \in 1..(Len(groups) - 1) |->
        Format2(shannonEntropy(groups[i + 1], offset))]

\* lines 79-86: Rule.ComputeEntropy; the report is kept as its entries, the
\* strings that strings.Join puts ", " between
ComputeEntropy(r, groups, offset) ==
    [i \in 1..Len(groups) |-> Format2(shannonEntropy(groups[i], offset))]

\* a report group past the last group reports the last group
SelectOffender_ClampGroup(r, found, groups) ==
    IF 0 < r.ReportGroup
    THEN groups[IF r.ReportGroup < Len(groups) THEN r.ReportGroup + 1
                ELSE Len(groups)]
    ELSE found

\* lines 48-51: the offender that is reported: the report group if the rule
\* names one that the match has, the whole match if not
SelectOffender(r, found, groups) ==
    IF 0 < r.ReportGroup /\ r.ReportGroup < Len(groups)
    THEN groups[r.ReportGroup + 1]
    ELSE found

\* lines 28-53: Rule.Inspect, when the iterations over charCounts of this
\* call start at the slot offset (one offset stands for all of them)
Inspect(r, ln, offset) ==
    LET found == FindString(r.Regex, ln)
        groups == FindStringSubmatch(r.Regex, found)
        none(at) == [offender |-> <<>>, entropy |-> <<>>, at |-> at]
    IN  IF found = <<>> THEN none("nomatch")
        ELSE IF RegexAllowed(r, ln) THEN none("allowed")
        ELSE IF Len(r.Entropies) > 0 /\ ~CheckEntropies(r, groups, offset)
             THEN none("entropy")
        ELSE [offender |-> SelectOffender(r, found, groups),
              entropy |-> ComputeEntropy(r, groups, offset),
              at |-> "end"]

\* A path is a string over these characters; "/" is the separator.
PathChars == {"a", "k", "/"}

Paths == UNION {[1..n -> PathChars] : n \in 0..MaxPathLen}

RECURSIVE StripTrailingSlashes(_)
StripTrailingSlashes(p) ==
    IF p # <<>> /\ p[Len(p)] = "/"
    THEN StripTrailingSlashes(SubSeq(p, 1, Len(p) - 1))
    ELSE p

\* filepath.Base (lines 97 and 100): the last element of the path, without
\* trailing separators; "." for the empty path, "/" for one of separators only
Base(p) ==
    IF p = <<>> THEN <<".">>
    ELSE LET t == StripTrailingSlashes(p)
             seps == {i \in 1..Len(t) : t[i] = "/"}
             last == IF seps = {} THEN 0
                     ELSE CHOOSE i \in seps : \A j \in seps : j <= i
             e == SubSeq(t, last + 1, Len(t))
         IN  IF e = <<>> THEN <<"/">> ELSE e

\* AllowList.FileAllowed (called at line 97): the file name matches one of
\* the file regexes of the allowlist
FileAllowed(al, fileName) == anyRegexMatch(fileName, al.Files)

\* AllowList.PathAllowed (called at line 97): the path matches one of the
\* path regexes of the allowlist
PathAllowed(al, filePath) == anyRegexMatch(filePath, al.Paths)

\* lines 104-106: Rule.HasFileLeak
HasFileLeak(r, fileName) == regexMatched(fileName, r.File)

\* lines 109-111: Rule.HasFilePathLeak
HasFilePathLeak(r, filePath) == regexMatched(filePath, r.Path)

\* the rule is taken for a file/path rule whatever its content regex is
HasFileOrPathLeakOnly_AnyRegex(r, filePath) ==
    IF Len(r.Entropies) # 0 THEN FALSE
    ELSE IF \/ FileAllowed(r.AllowList, Base(filePath))
            \/ PathAllowed(r.AllowList, filePath) THEN FALSE
    ELSE HasFileLeak(r, Base(filePath)) \/ HasFilePathLeak(r, filePath)

\* lines 90-101: Rule.HasFileOrPathLeakOnly
HasFileOrPathLeakOnly(r, filePath) ==
    IF ~SourceIsEmpty(r.Regex) THEN FALSE
    ELSE IF Len(r.Entropies) # 0 THEN FALSE
    ELSE IF \/ FileAllowed(r.AllowList, Base(filePath))
            \/ PathAllowed(r.AllowList, filePath) THEN FALSE
    ELSE HasFileLeak(r, Base(filePath)) \/ HasFilePathLeak(r, filePath)

\* The rules and lines Inspect is called with.
AllowLists ==
    {<<>>,
     <<Re(<<{"b"}>>, <<>>)>>,
     <<Re(<<{"k"}, {"a"}>>, <<>>), Re(<<{"e_acute"}>>, <<>>)>>}

EntropyDefs ==
    {[Group |-> 0, Min |-> Bit, Max |-> 2 * Bit],
     [Group |-> 1, Min |-> 0, Max |-> 0],
     [Group |-> 2, Min |-> Bit \div 2, Max |-> Bit],
     [Group |-> 1, Min |-> Bit, Max |-> 4 * Bit]}

EntropyLists ==
    {<<>>} \cup {<<e>> : e \in EntropyDefs}
           \cup {<<e, f>> : e \in {x \in EntropyDefs : x.Group = 1},
                            f \in {x \in EntropyDefs : x.Group # 1}}

ReportGroups == {-1, 0, 1, 2}

Rules ==
    [Regex : ContentRegexes, File : {NilRegex}, Path : {NilRegex},
     ReportGroup : ReportGroups,
     AllowList : [Regexes : AllowLists, Files : {<<>>}, Paths : {<<>>}],
     Entropies : EntropyLists]

InitRule ==
    /\ rule \in Rules
    /\ line \in Lines
    /\ offender = <<>>
    /\ entropy = <<>>
    /\ returnedAt = "none"
    /\ measured = <<>>
    /\ calls = <<>>
    /\ rpc = "ready"
    /\ path = <<>>
    /\ leakOnly = FALSE
    /\ fpc = "idle"
    /\ logged = {}
    /\ outcome = "running"
    /\ ScanIdle
    /\ CommitIdle

\* the entropy of each group of the match of r in ln, group 0 first, as
\* shannonEntropy computes it when its iterations start at the slot offset
GroupEntropies(r, ln, offset) ==
    LET groups == FindStringSubmatch(r.Regex, FindString(r.Regex, ln))
    IN  [i \in 1..Len(groups) |-> shannonEntropy(groups[i], offset)]

\* the call r.Inspect(line) returns what Inspect computes with the iteration
\* offset the runtime picks for this call
InspectReturns ==
    \E o \in MapOffsets(line) :
        \E res \in {Inspect(rule, line, o)} :
            /\ measured' = GroupEntropies(rule, line, o)
            /\ offender' = res.offender
            /\ entropy' = res.entropy
            /\ returnedAt' = res.at
            /\ calls' = Append(calls, [offender |-> res.offender,
                                       entropy |-> res.entropy])
            /\ UNCHANGED <<rule, line>>

\* a call of r.Inspect(line)
CallInspect ==
    /\ rpc = "ready"
    /\ InspectReturns
    /\ rpc' = "done"
    /\ UNCHANGED <<path, leakOnly, fpc, scanVars, commitVars, logged, outcome>>

NextRule == CallInspect

SpecRule == InitRule /\ [][NextRule]_vars

\* The rules, lines and paths of the calls of SpecEval: rules with and
\* without a content regex, file regex, path regex, entropy definition and
\* allowlisted files and paths.
\* the patterns "", k([ab]) and (.....)
EvalRegexes ==
    {EmptyRegex,
     Re(<<{"k"}, {"a", "b"}>>, <<[lo |-> 2, hi |-> 2]>>),
     Re(<<AnyChar, AnyChar, AnyChar, AnyChar, AnyChar>>, <<[lo |-> 1, hi |-> 5]>>)}

\* a file regex: not set, the pattern "", the pattern k
FileRegexes == {NilRegex, EmptyRegex, Re(<<{"k"}>>, <<>>)}

\* a path regex: not set, the pattern a/
PathRegexes == {NilRegex, Re(<<{"a"}, {"/"}>>, <<>>)}

\* no entropy definition, or one whose Min is an entropy that a line has
EvalEntropyLists == {<<>>, <<[Group |-> 0, Min |-> 1820810, Max |-> 4 * Bit]>>}

EvalRules ==
    [Regex : EvalRegexes, File : FileRegexes, Path : PathRegexes,
     ReportGroup : {1},
     AllowList : [Regexes : {<<>>},
                  Files : {<<>>, <<Re(<<{"k"}, {"k"}>>, <<>>)>>},
                  Paths : {<<>>, <<Re(<<{"/"}, {"k"}>>, <<>>)>>}],
     Entropies : EvalEntropyLists]

EvalLines ==
    {<<>>, <<"k", "a">>, <<"a", "a", "b", "k", "e_acute">>}

InitEval ==
    /\ rule \in EvalRules
    /\ line \in EvalLines
    /\ offender = <<>>
    /\ entropy = <<>>
    /\ returnedAt = "none"
    /\ measured = <<>>
    /\ calls = <<>>
    /\ rpc = "ready"
    /\ path \in Paths
    /\ leakOnly = FALSE
    /\ fpc = "ready"
    /\ logged = {}
    /\ outcome = "running"
    /\ ScanIdle
    /\ CommitIdle

\* a second call of r.Inspect(line), on the same rule with the same line
CallInspectAgain ==
    /\ rpc = "done"
    /\ InspectReturns
    /\ rpc' = "again"
    /\ UNCHANGED <<path, leakOnly, fpc, scanVars, commitVars, logged, outcome>>

\* a call of r.HasFileOrPathLeakOnly(path)
CallHasFileOrPathLeakOnly ==
    /\ fpc = "ready"
    /\ leakOnly' = HasFileOrPathLeakOnly(rule, path)
    /\ fpc' = "done"
    /\ UNCHANGED <<rule, line, offender, entropy, returnedAt, measured, calls,
                   rpc, path, scanVars, commitVars, logged, outcome>>

NextEval == CallInspect \/ CallInspectAgain \/ CallHasFileOrPathLeakOnly

SpecEval == InitEval /\ [][NextEval]_vars

----------------------------------------------------------------------------
(* Properties of Gitlab.Scan.                                              *)

\* a listing source is configured, so that Scan issues listing requests
HasSource == opts.User \/ opts.Organization

\* no listing request so far has failed
ListingErrorFree == \A i \in 1..Len(listErrs) : ~listErrs[i]

\* the first listing request was issued and failed
FirstListingFailed == Len(listErrs) >= 1 /\ listErrs[1]

\* the projects of the host listing that the fork filter keeps, page by page
Listed == KeptProjects(Flatten(host))

TaskNames == [i \in 1..Len(tasks) |-> tasks[i].Name]

\* C1: the listing loop of Scan always terminates: in every execution Scan
\* eventually stops issuing listing requests and leaves the loop.
C1_ListingTerminates == <>(pc \notin {"list", "wait"})

\* C2: over an error-free listing of T pages Scan issues exactly T listing
\* requests and then stops: never more than T, and T once the loop is left.
C2_ExactlyTRequests ==
    (HasSource /\ ListingErrorFree) =>
        /\ Len(requested) <= Len(host)
        /\ (pc \in {"clone", "done"} => Len(requested) = Len(host))

\* C3: when an error-free Scan has finished, every project of every page of
\* the listing that the fork filter keeps has had exactly one clone-and-scan
\* task, and nothing else has.
C3_EveryListedRepoOnce ==
    (pc = "done" /\ HasSource /\ ListingErrorFree) =>
        /\ \A i \in 1..Len(Listed) : Count(TaskNames, Listed[i].Name) = 1
        /\ Len(tasks) = Len(Listed)

\* C4: a failed Clone or Scan of one repository never ends the loop over the
\* collected repositories: the loop has attempted exactly the repositories
\* before its position, whatever failed; a repository whose clone failed is
\* not scanned; and when Scan has returned, every collected repository has
\* been attempted, in order.
C4_FailureDoesNotAbort ==
    /\ pc \in {"clone", "done"} =>
          /\ Len(tasks) = idx - 1
          /\ Len(tasks) <= Len(projects)
          /\ \A i \in 1..Len(tasks) :
                /\ tasks[i].Name = projects[i].Name
                /\ (tasks[i].clone = "failed" => tasks[i].scan = "none")
                /\ (tasks[i].clone = "ok" => tasks[i].scan \in {"ok", "failed"})
    /\ pc = "done" => (Len(tasks) = Len(projects) /\ outcome = "returned")
    /\ outcome # "exited"

\* C4 witness: Scan has returned although the clone of an earlier repository
\* failed and the scan of another failed; a later repository was scanned.
C4_Witness ==
    /\ pc = "done"
    /\ \E i, j, k \in 1..Len(tasks) :
          /\ i < k /\ j < k
          /\ tasks[i].clone = "failed"
          /\ tasks[j].scan = "failed"
          /\ tasks[k].scan = "ok"

\* C5 as claimed: when the first listing request fails, Scan ends in a
\* failure outcome (the process exits) and no repository is cloned.
C5_FirstPageErrorFatal ==
    (FirstListingFailed /\ outcome # "running") =>
        (outcome = "exited" /\ tasks = <<>>)

\* C5 amended: a failure of the first listing request is logged and is not
\* fatal: the listing loop ends after that one request, no repository is
\* collected, cloned or scanned, and Scan returns normally.
C5_FirstPageErrorLogged ==
    FirstListingFailed =>
        /\ "list" \in logged
        /\ pc \in {"clone", "done"}
        /\ Len(requested) = 1
        /\ projects = <<>>
        /\ tasks = <<>>
        /\ outcome \in {"running", "returned"}
        /\ (pc = "done" => outcome = "returned")

\* C5 witness: Scan has returned after its first listing request failed.
C5_Witness == FirstListingFailed /\ pc = "done" /\ outcome = "returned"

\* the items the server holds for page q of the listing
PageItems(q) == IF q \in 1..Len(host) THEN host[q] ELSE <<>>

\* the projects the first n listing requests returned, in order of arrival
\* (a failed request returns none)
RECURSIVE Received(_)
Received(n) ==
    IF n = 0 THEN <<>>
    ELSE Received(n - 1) \o (IF listErrs[n] THEN <<>> ELSE PageItems(requested[n]))

\* a listing request after the first one failed, the earlier ones succeeded
LaterListingFailed ==
    /\ Len(listErrs) > 1
    /\ listErrs[Len(listErrs)]
    /\ \A i \in 1..(Len(listErrs) - 1) : ~listErrs[i]

\* the names of the projects of the host listing that are marked as forks
ForkedNames ==
    UNION {{host[p][k].Name : k \in {j \in 1..Len(host[p]) : host[p][j].Forked}} :
              p \in 1..Len(host)}

\* C17: a listing failure after the first page does not discard work: the
\* failure is logged and ends the listing loop, the projects collected from
\* the earlier requests are all kept, the clone loop goes through them, and
\* when Scan has ended it has returned normally with one clone-and-scan task
\* for each of them, in order.
C17_LaterFailureKeepsWork ==
    LaterListingFailed =>
        /\ "list" \in logged
        /\ pc \in {"clone", "done"}
        /\ projects = KeptProjects(Received(Len(listErrs) - 1))
        /\ outcome \in {"running", "returned"}
        /\ (pc = "done" =>
              /\ outcome = "returned"
              /\ Len(tasks) = Len(projects)
              /\ \A i \in 1..Len(tasks) : tasks[i].Name = projects[i].Name)

\* C17 witness: Scan has returned after a later listing request failed, and
\* a repository collected before the failure was cloned and scanned.
C17_Witness ==
    /\ LaterListingFailed
    /\ pc = "done"
    /\ \E i \in 1..Len(tasks) : tasks[i].scan = "ok"

\* C19: with ExcludeForks set no project marked as a fork is ever collected,
\* cloned or scanned, whichever request returned it; with ExcludeForks not
\* set every project a request returned is collected, fork or not, and when
\* Scan has returned each of them has had its clone-and-scan task.
C19_ForksExcludedOnEveryPage ==
    /\ opts.ExcludeForks =>
          /\ \A i \in 1..Len(projects) : ~projects[i].Forked
          /\ {tasks[i].Name : i \in 1..Len(tasks)} \cap ForkedNames = {}
    /\ (~opts.ExcludeForks /\ pc \in {"list", "wait", "clone", "done"}) =>
          /\ projects = Received(Len(listErrs))
          /\ (pc = "done" =>
                /\ Len(tasks) = Len(projects)
                /\ \A i \in 1..Len(tasks) : tasks[i].Name = projects[i].Name)

\* C19 witness: with ExcludeForks set Scan has returned; a request had
\* returned a fork next to a project that is none, and only the latter was
\* cloned.
C19_Witness ==
    /\ opts.ExcludeForks
    /\ pc = "done"
    /\ tasks # <<>>
    /\ \E i \in 1..Len(Received(Len(listErrs))) : Received(Len(listErrs))[i].Forked

----------------------------------------------------------------------------
(* Properties of Gitlab.ScanCommitURL.                                     *)

\* no diff request so far has failed
DiffErrorFree == \A i \in 1..Len(diffLog) : diffLog[i].ok

\* every diff of the commit, page by page
AllDiffs == Flatten(diffHost)

\* the diffs of the first n pages
DiffsUpTo(n) == Flatten(SubSeq(diffHost, 1, n))

\* Hash.String(): the hex digits of the 20 bytes
HashString(h) ==
    [i \in 1..(2 * HashSize) |->
        IF i % 2 = 1 THEN h[(i + 1) \div 2] \div 16 ELSE h[i \div 2] % 16]

\* the bundle is the content unit of diff d with the metadata of the commit
IsUnitOf(b, d) ==
    /\ b.Content = d.Diff
    /\ b.FilePath = d.NewPath
    /\ ~b.Commit.nil
    /\ HashString(b.Commit.Hash) = commit.ID
    /\ b.Commit.Author.Name = commit.AuthorName
    /\ b.Commit.Author.Email = commit.AuthorEmail
    /\ b.Commit.Author.When = commit.AuthoredDate

\* C6: a diff page whose request failed is skipped: the request after a
\* failed one is for a later page.
C6_FailedPageSkipped ==
    \A i \in 1..(Len(diffLog) - 1) :
        ~diffLog[i].ok => diffLog[i + 1].page > diffLog[i].page

\* C7: when the commit lookup has failed, the invocation has ended (the
\* process exited), no diff page was ever requested and no content unit was
\* ever passed to CheckRules.
C7_CommitLookupFatal ==
    "fatal" \in logged =>
        /\ cpc = "fatal"
        /\ outcome = "exited"
        /\ diffLog = <<>>
        /\ checked = <<>>

\* C7 witness: the commit lookup has failed.
C7_Witness == "fatal" \in logged /\ commitObj = NoCommit /\ cpc # "start"

\* C8: in an error-free single-commit scan the diff pages are requested
\* once each in ascending order from 1, the content units checked so far are
\* the diffs of the pages fetched, one unit per diff in order (text = diff,
\* path = new path, commit metadata = that of the fetched commit), and at
\* the end all P pages have been requested and every diff checked once.
C8_EveryHunkOnce ==
    DiffErrorFree =>
        /\ Len(diffLog) <= Len(diffHost)
        /\ \A i \in 1..Len(diffLog) : diffLog[i].page = i
        /\ Len(checked) = Len(DiffsUpTo(Len(diffLog)))
        /\ \A k \in 1..Len(checked) : IsUnitOf(checked[k], DiffsUpTo(Len(diffLog))[k])
        /\ (cpc = "done" => Len(diffLog) = Len(diffHost) /\ Len(checked) = Len(AllDiffs))

\* C8 witness: an error-free scan of a commit with several diff pages has
\* finished and has checked diffs of more than one page.
C8_Witness ==
    /\ cpc = "done"
    /\ DiffErrorFree
    /\ Len(diffHost) >= 2
    /\ Len(diffHost[1]) >= 1
    /\ Len(diffHost[Len(diffHost)]) >= 1
    /\ Len(checked) >= 3

----------------------------------------------------------------------------
(* Properties of Rule.Inspect.                                             *)

\* the substring of the line the content regex matched ("" if none)
Matched == FindString(rule.Regex, line)

\* the groups of the match, group 0 first
MatchGroups == FindStringSubmatch(rule.Regex, Matched)

\* entropy definition e names a group of the match whose entropy lies in
\* [e.Min, e.Max]
Satisfied(e) ==
    /\ e.Group < Len(MatchGroups)
    /\ e.Min <= measured[e.Group + 1]
    /\ measured[e.Group + 1] <= e.Max

SomeConstraintSatisfied ==
    \E i \in 1..Len(rule.Entropies) : Satisfied(rule.Entropies[i])

\* the substring Inspect reports: group ReportGroup, or the whole match
Reported ==
    IF 0 < rule.ReportGroup /\ rule.ReportGroup < Len(MatchGroups)
    THEN MatchGroups[rule.ReportGroup + 1]
    ELSE Matched

\* C9: when the content regex matches, the rule's allowlist suppresses the
\* finding exactly if the matched substring matches one of its regexes:
\* text of the line outside the match does not suppress it.
C9_AllowlistOnMatch ==
    (rpc = "done" /\ Matched # <<>>) =>
        (returnedAt = "allowed" <=>
            anyRegexMatch(Matched, rule.AllowList.Regexes))

\* C10 as claimed: for a rule with entropy constraints whose regex matches a
\* line that is not allowlisted, the offender is non-empty exactly if some
\* constraint is satisfied.
C10_OffenderIffSatisfied ==
    (/\ rpc = "done"
     /\ Len(rule.Entropies) > 0
     /\ Matched # <<>>
     /\ ~RegexAllowed(rule, line)) =>
        (offender # <<>> <=> SomeConstraintSatisfied)

\* C10 amended: for such a rule and line, Inspect passes the entropy check
\* and reports exactly if some constraint names a group of the match whose
\* entropy lies in [min, max], bounds included (the constraints are OR'd);
\* otherwise offender and report are empty.  What it reports is group
\* ReportGroup or the whole match, so the offender is non-empty exactly if
\* a constraint is satisfied and that reported substring is not empty.
C10_FindingIffSatisfied ==
    (/\ rpc = "done"
     /\ Len(rule.Entropies) > 0
     /\ Matched # <<>>
     /\ ~RegexAllowed(rule, line)) =>
        /\ (returnedAt = "end" <=> SomeConstraintSatisfied)
        /\ (returnedAt = "entropy" <=> ~SomeConstraintSatisfied)
        /\ (SomeConstraintSatisfied => offender = Reported)
        /\ (offender # <<>> <=> (SomeConstraintSatisfied /\ Reported # <<>>))
        /\ (~SomeConstraintSatisfied => (offender = <<>> /\ entropy = <<>>))

\* C10 witness: of two constraints the first is not satisfied and the second
\* is, with the entropy of its group equal to its lower bound; Inspect has
\* returned a finding.
C10_Witness ==
    /\ rpc = "done"
    /\ Len(rule.Entropies) = 2
    /\ ~Satisfied(rule.Entropies[1])
    /\ Satisfied(rule.Entropies[2])
    /\ measured[rule.Entropies[2].Group + 1] = rule.Entropies[2].Min
    /\ offender # <<>>
    /\ returnedAt = "end"

\* the number of groups of the content regex, group 0 included
NumGroups == Len(rule.Regex.caps) + 1

\* the text of group g of the match (group 0 is the whole match)
GroupOfMatch(g) ==
    IF g = 0 THEN Matched
    ELSE SubSeq(Matched, rule.Regex.caps[g].lo, rule.Regex.caps[g].hi)

\* the entropy report a finding carries: one entry for each group 0..n of the
\* match in ascending order, the entropy of the group to two decimals
FullReport ==
    [i \in 1..NumGroups |-> Format2(measured[i])]

\* C11: when Inspect reports, the offender is capture group ReportGroup if
\* 0 < ReportGroup < number of groups, and otherwise (ReportGroup 0,
\* negative or past the last group, also for a regex without capture
\* groups) the whole match, which is not empty; a non-empty offender is
\* only ever returned that way.
C11_ReportGroupOrWholeMatch ==
    rpc = "done" =>
        /\ returnedAt = "end" =>
              IF 0 < rule.ReportGroup /\ rule.ReportGroup < NumGroups
              THEN offender = GroupOfMatch(rule.ReportGroup)
              ELSE offender = Matched /\ offender # <<>>
        /\ offender # <<>> => returnedAt = "end"

\* C11 witness: the rule names a report group past the last group of a regex
\* that has capture groups, and Inspect has reported the whole match.
C11_Witness ==
    /\ rpc = "done"
    /\ returnedAt = "end"
    /\ NumGroups >= 2
    /\ rule.ReportGroup >= NumGroups
    /\ offender = Matched
    /\ offender # GroupOfMatch(NumGroups - 1)

\* one character, once or repeated
OneCharRepeated(s) == s # <<>> /\ \A i \in 1..Len(s) : s[i] = s[1]

\* exactly two distinct characters, each as often as the other
TwoCharsEqually(s) ==
    /\ Cardinality({s[i] : i \in 1..Len(s)}) = 2
    /\ \A i, j \in 1..Len(s) : Count(s, s[i]) = Count(s, s[j])

\* C14: shannonEntropy works over code points: for every non-empty string it
\* is given (the groups of a reported match) the frequencies are taken over
\* the number of code points, so that they sum to 1; the entropy of the
\* empty string and of one repeated character is 0, and that of two
\* characters occurring equally often is 1.
C14_EntropyOverCodePoints ==
    (rpc = "done" /\ returnedAt = "end") =>
        \A g \in 0..(NumGroups - 1) :
            LET s == GroupOfMatch(g)
                h == measured[g + 1]
            IN  /\ s # <<>> => DataLength(s) = Len(s)
                /\ (s = <<>> \/ OneCharRepeated(s)) => (h = 0 /\ entropy[g + 1] = 0)
                /\ TwoCharsEqually(s) => h = Bit

\* C16 as claimed: a non-empty offender comes with a report of one entry per
\* group 0..n in ascending order, with or without entropy constraints, and
\* an empty offender comes with an empty report.
C16_ReportIffOffender ==
    rpc = "done" =>
        /\ offender # <<>> => entropy = FullReport
        /\ offender = <<>> => entropy = <<>>

\* C16 amended: when Inspect reaches its last return, as it has whenever the
\* offender is not empty, the report has one entry per group 0..n in
\* ascending order, with or without entropy constraints; when it returns
\* earlier, offender and report are both empty.  An empty offender comes
\* with a non-empty report exactly if the last return was reached and the
\* report group is a capture group that is empty.
C16_ReportIffLastReturn ==
    rpc = "done" =>
        /\ returnedAt = "end" => entropy = FullReport
        /\ offender # <<>> => returnedAt = "end"
        /\ returnedAt # "end" => (offender = <<>> /\ entropy = <<>>)
        /\ (offender = <<>> /\ entropy # <<>>) <=>
              /\ returnedAt = "end"
              /\ 0 < rule.ReportGroup /\ rule.ReportGroup < NumGroups
              /\ GroupOfMatch(rule.ReportGroup) = <<>>

\* C16 witness: a rule without entropy constraints whose regex has two
\* capture groups has reported; the report has three entries.
C16_Witness ==
    /\ rpc = "done"
    /\ rule.Entropies = <<>>
    /\ offender # <<>>
    /\ NumGroups = 3
    /\ Len(entropy) = 3

\* every entropy definition of the rule names a group the regex does not have
NoConstraintInRange ==
    /\ Len(rule.Entropies) > 0
    /\ \A i \in 1..Len(rule.Entropies) : rule.Entropies[i].Group >= NumGroups

\* C18: an entropy definition whose group index is not below the number of
\* groups is passed over: a rule with entropy definitions reports only if
\* one that names a group of the match has the entropy of that group in its
\* range, and a rule all of whose definitions name groups the regex does not
\* have returns the empty offender and report for every line.
C18_MissingGroupSkipped ==
    rpc = "done" =>
        /\ (Len(rule.Entropies) > 0 /\ returnedAt = "end") =>
              \E i \in 1..Len(rule.Entropies) :
                  LET e == rule.Entropies[i] IN
                  /\ e.Group < NumGroups
                  /\ e.Min <= measured[e.Group + 1]
                  /\ measured[e.Group + 1] <= e.Max
        /\ NoConstraintInRange =>
              (offender = <<>> /\ entropy = <<>> /\ returnedAt # "end")

\* C18 witness: the regex has matched a line that is not allowlisted, every
\* entropy definition names a missing group, and Inspect has returned at
\* the entropy check.
C18_Witness ==
    /\ rpc = "done"
    /\ NoConstraintInRange
    /\ NumGroups >= 2
    /\ returnedAt = "entropy"

----------------------------------------------------------------------------
(* Properties of Rule.HasFileOrPathLeakOnly and of repeated evaluation.    *)

\* regex re is set and matches a non-empty part of s (the pattern "" matches
\* no text of s)
HasMatch(re, s) ==
    /\ ~re.nil
    /\ re.atoms # <<>>
    /\ \E i \in 1..Len(s) : MatchesAt(re, s, i)

\* one of the regexes of the list matches s
AnyHasMatch(res, s) == \E i \in 1..Len(res) : HasMatch(res[i], s)

\* C12: HasFileOrPathLeakOnly(path) is true exactly if the content regex is
\* empty, the rule has no entropy constraints, neither the base name of the
\* path nor the full path is allowlisted, and the base name matches the file
\* regex or the full path matches the path regex; a regex that is not set
\* matches nothing.
C12_FileOrPathLeakOnly ==
    fpc = "done" =>
        (leakOnly <=>
            /\ SourceIsEmpty(rule.Regex)
            /\ Len(rule.Entropies) = 0
            /\ ~AnyHasMatch(rule.AllowList.Files, Base(path))
            /\ ~AnyHasMatch(rule.AllowList.Paths, path)
            /\ (HasMatch(rule.File, Base(path)) \/ HasMatch(rule.Path, path)))

\* C12 witness: the call has returned true for a rule whose file regex is
\* not set, on a path with a directory part.
C12_Witness ==
    /\ fpc = "done"
    /\ leakOnly
    /\ rule.File.nil
    /\ Base(path) # path

\* C13: no rule is counted through both evaluation paths: no call of
\* Inspect on a rule has returned a non-empty offender if
\* HasFileOrPathLeakOnly is true of the rule, whatever the line and path;
\* and Inspect returns the empty offender for a rule whose content regex is
\* empty.
C13_NeverBothPaths ==
    /\ (fpc = "done" /\ leakOnly) =>
          \A i \in 1..Len(calls) : calls[i].offender = <<>>
    /\ SourceIsEmpty(rule.Regex) =>
          \A i \in 1..Len(calls) : calls[i].offender = <<>>

\* C13 witness: Inspect has reported a finding of a rule whose file regex
\* matches the base name of the path, and HasFileOrPathLeakOnly has
\* returned false for that path.
C13_Witness ==
    /\ fpc = "done"
    /\ ~leakOnly
    /\ rpc \in {"done", "again"}
    /\ offender # <<>>
    /\ HasMatch(rule.File, Base(path))
    /\ ~AnyHasMatch(rule.AllowList.Files, Base(path))
    /\ ~AnyHasMatch(rule.AllowList.Paths, path)

\* C15: rule evaluation is deterministic: two calls of Inspect on the same
\* rule with the same line have returned the same offender and the same
\* entropy report.
C15_SameResultTwice ==
    Len(calls) = 2 => calls[1] = calls[2]

\* No call of Inspect or of HasFileOrPathLeakOnly (nor of CheckEntropies and
\* ComputeEntropy, which Inspect calls) changes the rule, its allowlist or
\* its entropy definitions.
RuleNeverChanges == [][rule' = rule]_vars

=============================================================================
